---- MODULE Spec2Model ----
(***************************************************************************)
(* A model of chatbot_sample.py: the terminal chatbot's shell loop (main), *)
(* its memory (Chatbot.memory, save/load/reset), its reply rules           *)
(* (Chatbot.respond) and the restricted calculator (eval_expr).            *)
(*                                                                         *)
(* Representation.  A Python str is a sequence of one-character strings;   *)
(* a character outside ASCII is written by its code point ("U+1F916").     *)
(* A Python object is a record tagged by its type (PyNone, PyStr, ...).    *)
(* A file is the sequence of JSON lexemes it holds (the insignificant      *)
(* white space that indent=2 writes is left out).  An expression tree is   *)
(* a record tagged by its ast node class.  A float is modelled by the      *)
(* rational it approximates.                                               *)
(***************************************************************************)
EXTENDS Integers, Sequences, FiniteSets, TLC

VARIABLES
    memory,    \* Chatbot.memory, the object bound to self.memory
    files,     \* the file system: path -> what open(path) finds
    last,      \* the last iteration of main's loop: line read, handler, output
    status,    \* "running", "exited" (main returned 0) or "crashed" (uncaught)
    declared,  \* history: the name the latest name-declaration learned, if any
    expr,      \* eval_expr: the tree ast.parse produced (tree-level checks)
    result     \* eval_expr: what _eval(tree.body) gave for expr

vars == <<memory, files, last, status, declared, expr, result>>

(***************************************************************************)
(* Bounds of the model.                                                    *)
(***************************************************************************)
\* longest history list among the memory records found on disk at start
MaxHist == 1
\* largest number of nodes of an expression tree handed to _eval directly
MaxNodes == 4

(***************************************************************************)
(* Python str operations used by the program.                              *)
(***************************************************************************)
UpperChars == <<"A", "B", "C", "D", "E", "F", "G", "H", "I", "J", "K", "L", "M", "N", "O", "P",
        "Q", "R", "S", "T", "U", "V", "W", "X", "Y", "Z">>
LowerChars == <<"a", "b", "c", "d", "e", "f", "g", "h", "i", "j", "k", "l", "m", "n", "o", "p",
        "q", "r", "s", "t", "u", "v", "w", "x", "y", "z">>
DigitChars == <<"0", "1", "2", "3", "4", "5", "6", "7", "8", "9">>

Range(s) == {s[i] : i \in 1..Len(s)}

\* the lower-case letter of every upper-case letter, and back
ToLower == [c \in Range(UpperChars) |->
               LowerChars[CHOOSE i \in 1..Len(UpperChars) : UpperChars[i] = c]]
ToUpper == [c \in Range(LowerChars) |->
               UpperChars[CHOOSE i \in 1..Len(LowerChars) : LowerChars[i] = c]]
\* the value of every digit
DigitValue == [c \in Range(DigitChars) |->
                  (CHOOSE i \in 1..Len(DigitChars) : DigitChars[i] = c) - 1]

IsLetter(c) == c \in DOMAIN ToLower \/ c \in DOMAIN ToUpper
IsDigit(c) == c \in DOMAIN DigitValue
\* \s of re, str.isspace
IsSpace(c) == c \in {" ", "\t"}
\* \w of re
IsWordChar(c) == IsLetter(c) \/ IsDigit(c) \/ c = "_"

CharLower(c) == IF c \in DOMAIN ToLower THEN ToLower[c] ELSE c
CharUpper(c) == IF c \in DOMAIN ToUpper THEN ToUpper[c] ELSE c

SetMin(S) == CHOOSE x \in S : \A y \in S : x <= y
SetMax(S) == CHOOSE x \in S : \A y \in S : y <= x

\* str.lower
Lower(s) == SubSeq([i \in 1..Len(s) |-> CharLower(s[i])], 1, Len(s))

\* str.strip
Strip(s) ==
    LET keep == {i \in 1..Len(s) : ~IsSpace(s[i])}
    IN  IF keep = {} THEN <<>> ELSE SubSeq(s, SetMin(keep), SetMax(keep))

\* str.title: the first letter of every run of letters upper, the rest lower
Title(s) ==
    SubSeq([i \in 1..Len(s) |->
               IF i = 1 \/ ~IsLetter(s[i - 1]) THEN CharUpper(s[i])
               ELSE CharLower(s[i])], 1, Len(s))

\* str.startswith
StartsWith(s, p) == Len(p) <= Len(s) /\ SubSeq(s, 1, Len(p)) = p

\* the positions where w occurs in s
Occurrences(s, w) == {i \in 1..(Len(s) - Len(w) + 1) : SubSeq(s, i, i + Len(w) - 1) = w}

\* w in s
Contains(s, w) == \E i \in 1..(Len(s) - Len(w) + 1) : SubSeq(s, i, i + Len(w) - 1) = w

\* s.split(c, 1)[1]: what follows the first c of s (s contains c)
AfterFirst(s, c) ==
    LET i == SetMin({k \in 1..Len(s) : s[k] = c})
    IN  SubSeq(s, i + 1, Len(s))

\* s.split(): the maximal runs of non-space characters, in order
RECURSIVE SplitWords(_)
SplitWords(s) ==
    LET t == Strip(s)
        sp == {i \in 1..Len(t) : IsSpace(t[i])}
    IN  IF t = <<>> THEN <<>>
        ELSE IF sp = {} THEN <<t>>
        ELSE <<SubSeq(t, 1, SetMin(sp) - 1)>>
                \o SplitWords(SubSeq(t, SetMin(sp) + 1, Len(t)))

\* any(w in low for w in words)
AnyIn(low, words) == \E k \in 1..Len(words) : Contains(low, words[k])

\* str(n) of an int
RECURSIVE NatDigits(_)
NatDigits(n) ==
    IF n < 10 THEN <<DigitChars[n + 1]>>
    ELSE NatDigits(n \div 10) \o <<DigitChars[(n % 10) + 1]>>

IntStr(n) == IF n < 0 THEN <<"-">> \o NatDigits(-n) ELSE NatDigits(n)

\* %02d, %04d of strftime
RECURSIVE ZeroPad(_, _)
ZeroPad(n, width) ==
    LET d == NatDigits(n)
    IN  IF Len(d) >= width THEN d ELSE <<"0">> \o ZeroPad(n, width - 1)

(***************************************************************************)
(* Python objects: what json.load can build and the program can hold.      *)
(***************************************************************************)
PyNone == [ty |-> "NoneType", v |-> <<>>]
PyStr(s) == [ty |-> "str", v |-> s]
\* an int is held by its decimal digits
PyInt(ds) == [ty |-> "int", v |-> ds]
PyList(l) == [ty |-> "list", v |-> l]
\* a dict is the function from its keys to their values
PyDict(f) == [ty |-> "dict", v |-> f]

K_name == <<"n", "a", "m", "e">>
K_history == <<"h", "i", "s", "t", "o", "r", "y">>

\* bool(x)
Truthy(x) ==
    CASE x.ty = "NoneType" -> FALSE
      [] x.ty = "str" -> x.v # <<>>
      [] x.ty = "int" -> x.v # <<"0">>
      [] x.ty = "list" -> x.v # <<>>
      [] x.ty = "dict" -> DOMAIN x.v # {}

\* str(x) inside an f-string, for the objects a name can be
StrOf(x) ==
    CASE x.ty = "NoneType" -> <<"N", "o", "n", "e">>
      [] x.ty = "str" -> x.v
      [] x.ty = "int" -> x.v
      [] x.ty = "list" -> <<"[", ".", ".", ".", "]">>
      [] x.ty = "dict" -> <<"{", ".", ".", ".", "}">>

\* d.get(key): the value, or None when the key is absent (d is a dict)
DictGet(d, key) == IF key \in DOMAIN d.v THEN d.v[key] ELSE PyNone

\* d[key] = val on a dict
DictSet(d, key, val) ==
    PyDict([k \in (DOMAIN d.v) \cup {key} |-> IF k = key THEN val ELSE d.v[k]])

(***************************************************************************)
(* Safe calculator: the values _eval computes with.                        *)
(*   int      a Python int n                                               *)
(*   float    a float, as the rational n/d in lowest terms; d = 0 marks a  *)
(*            float whose digits the model does not track (pi, sin(1)):    *)
(*            arithmetic on it gives such a float again                    *)
(*   complex  a complex number (a negative base to a fractional power)     *)
(*   builtin  a function object of module math, s its name                 *)
(*   raise    a raised exception, exc its class and s its message          *)
(***************************************************************************)
IntV(n) == [k |-> "int", n |-> n, d |-> 1, s |-> <<>>, exc |-> ""]

Abs(n) == IF n < 0 THEN -n ELSE n

RECURSIVE Gcd(_, _)
Gcd(a, b) == IF b = 0 THEN a ELSE Gcd(b, a % b)

FloatV(n, d) ==
    LET g == Gcd(Abs(n), d)
    IN  [k |-> "float", n |-> n \div g, d |-> d \div g, s |-> <<>>, exc |-> ""]

\* a number of type k whose value the model does not track (d = 0)
ApproxV(k) == [k |-> k, n |-> 0, d |-> 0, s |-> <<>>, exc |-> ""]
BuiltinV(id) == [k |-> "builtin", n |-> 0, d |-> 0, s |-> id, exc |-> ""]
Raise(exc, msg) == [k |-> "raise", n |-> 0, d |-> 0, s |-> msg, exc |-> exc]

IsRaise(x) == x.k = "raise"
IsReal(x) == x.k \in {"int", "float"}
IsNumber(x) == x.k \in {"int", "float", "complex"}
IsTracked(x) == IsReal(x) /\ x.d # 0
IsZero(x) == IsTracked(x) /\ x.n = 0

\* type(x).__name__
TypeName(x) ==
    CASE x.k = "int" -> <<"i", "n", "t">>
      [] x.k = "float" -> <<"f", "l", "o", "a", "t">>
      [] x.k = "complex" -> <<"c", "o", "m", "p", "l", "e", "x">>
      [] x.k = "builtin" -> <<"b", "u", "i", "l", "t", "i", "n", "_", "f", "u", "n", "c", "t", "i",
              "o", "n", "_", "o", "r", "_", "m", "e", "t", "h", "o", "d">>

\* the result of an arithmetic operator: an int when both operands are ints
Arith(a, b, n, d) ==
    IF a.k = "int" /\ b.k = "int" /\ d = 1 THEN IntV(n) ELSE FloatV(n, d)

\* a number that some untracked or complex operand makes untracked or complex
Untracked(a, b) ==
    IF a.k = "complex" \/ b.k = "complex" THEN ApproxV("complex")
    ELSE IF a.k = "int" /\ b.k = "int" THEN ApproxV("int")
    ELSE ApproxV("float")

BadOperands(sym, a, b) ==
    Raise("TypeError", <<"u", "n", "s", "u", "p", "p", "o", "r", "t", "e", "d", " ", "o", "p", "e",
            "r", "a", "n", "d", " ", "t", "y", "p", "e", "(", "s", ")", " ", "f", "o", "r",
                    " ">> \o sym \o <<":", " ", "'">>
                         \o TypeName(a) \o <<"'", " ", "a", "n", "d", " ",
                                 "'">> \o TypeName(b) \o <<"'">>)

\* floor(n/d) for d > 0
FloorDiv(n, d) == IF n >= 0 THEN n \div d ELSE -((-n + d - 1) \div d)

RECURSIVE IntPow(_, _)
IntPow(b, e) == IF e = 0 THEN 1 ELSE b * IntPow(b, e - 1)

\* operator.add
op_add(a, b) ==
    IF ~(IsNumber(a) /\ IsNumber(b)) THEN BadOperands(<<"+">>, a, b)
    ELSE IF ~(IsTracked(a) /\ IsTracked(b)) THEN Untracked(a, b)
    ELSE Arith(a, b, a.n * b.d + b.n * a.d, a.d * b.d)

\* operator.sub
op_sub(a, b) ==
    IF ~(IsNumber(a) /\ IsNumber(b)) THEN BadOperands(<<"-">>, a, b)
    ELSE IF ~(IsTracked(a) /\ IsTracked(b)) THEN Untracked(a, b)
    ELSE Arith(a, b, a.n * b.d - b.n * a.d, a.d * b.d)

\* operator.mul
op_mul(a, b) ==
    IF ~(IsNumber(a) /\ IsNumber(b)) THEN BadOperands(<<"*">>, a, b)
    ELSE IF ~(IsTracked(a) /\ IsTracked(b)) THEN Untracked(a, b)
    ELSE Arith(a, b, a.n * b.n, a.d * b.d)

\* operator.truediv: always a float, ZeroDivisionError on a zero divisor
op_truediv(a, b) ==
    IF ~(IsNumber(a) /\ IsNumber(b)) THEN BadOperands(<<"/">>, a, b)
    ELSE IF IsZero(b) THEN
        Raise("ZeroDivisionError",
              IF a.k = "int" /\ b.k = "int" THEN <<"d", "i", "v", "i", "s", "i", "o", "n", " ",
                      "b", "y", " ", "z", "e", "r", "o">>
              ELSE <<"f", "l", "o", "a", "t", " ", "d", "i", "v", "i", "s", "i", "o", "n", " ",
                      "b", "y", " ", "z", "e", "r", "o">>)
    ELSE IF ~(IsTracked(a) /\ IsTracked(b)) THEN
        IF a.k = "complex" \/ b.k = "complex" THEN ApproxV("complex") ELSE ApproxV("float")
    ELSE IF b.n < 0 THEN FloatV(-(a.n * b.d), a.d * (-b.n))
    ELSE FloatV(a.n * b.d, a.d * b.n)

\* operator.mod: the result takes the sign of the divisor
op_mod(a, b) ==
    IF ~(IsReal(a) /\ IsReal(b)) THEN BadOperands(<<"%">>, a, b)
    ELSE IF IsZero(b) THEN
        Raise("ZeroDivisionError",
              IF a.k = "int" /\ b.k = "int"
              THEN <<"i", "n", "t", "e", "g", "e", "r", " ", "m", "o", "d", "u", "l", "o", " ",
                      "b", "y", " ", "z", "e", "r", "o">>
              ELSE <<"f", "l", "o", "a", "t", " ", "m", "o", "d", "u", "l", "o">>)
    ELSE IF ~(IsTracked(a) /\ IsTracked(b)) THEN Untracked(a, b)
    ELSE
        \* a - b * floor(a / b), over the common denominator a.d * b.d
        LET x == a.n * b.d
            y == b.n * a.d
            q == IF y > 0 THEN FloorDiv(x, y) ELSE FloorDiv(-x, -y)
        IN  Arith(a, b, x - q * y, a.d * b.d)

\* operator.pow
op_pow(a, b) ==
    IF ~(IsNumber(a) /\ IsNumber(b)) THEN BadOperands(<<"*", "*", " ", "o", "r", " ", "p", "o",
            "w", "(", ")">>, a, b)
    ELSE IF ~(IsTracked(a) /\ IsTracked(b)) THEN Untracked(a, b)
    ELSE IF b.d = 1 /\ b.n >= 0 THEN
        Arith(a, b, IntPow(a.n, b.n), IntPow(a.d, b.n))
    ELSE IF a.n = 0 /\ b.n < 0 THEN
        Raise("ZeroDivisionError", <<"0", ".", "0", " ", "c", "a", "n", "n", "o", "t", " ", "b",
                "e", " ", "r", "a", "i", "s", "e", "d", " ", "t", "o", " ", "a", " ", "n", "e",
                        "g", "a", "t", "i", "v", "e", " ", "p", "o", "w", "e", "r">>)
    ELSE IF b.d = 1 THEN
        \* a negative integral exponent: the reciprocal, a float
        IF a.n < 0 THEN FloatV(IntPow(-a.d, -b.n), IntPow(-a.n, -b.n))
        ELSE FloatV(IntPow(a.d, -b.n), IntPow(a.n, -b.n))
    ELSE IF a.n < 0 THEN ApproxV("complex")
    ELSE IF a.n = 0 THEN FloatV(0, 1)
    ELSE IF a.n = a.d THEN FloatV(1, 1)
    ELSE ApproxV("float")

\* operator.neg
op_neg(a) ==
    IF ~IsNumber(a)
    THEN Raise("TypeError", <<"b", "a", "d", " ", "o", "p", "e", "r", "a", "n", "d", " ", "t", "y",
            "p", "e", " ", "f", "o", "r", " ", "u", "n", "a", "r", "y", " ", "-", ":", " ", "'">>
                                \o TypeName(a) \o <<"'">>)
    ELSE IF ~IsTracked(a) THEN a
    ELSE [a EXCEPT !.n = -a.n]

\* operator.pos
op_pos(a) ==
    IF ~IsNumber(a)
    THEN Raise("TypeError", <<"b", "a", "d", " ", "o", "p", "e", "r", "a", "n", "d", " ", "t", "y",
            "p", "e", " ", "f", "o", "r", " ", "u", "n", "a", "r", "y", " ", "+", ":", " ", "'">>
                                \o TypeName(a) \o <<"'">>)
    ELSE a

(***************************************************************************)
(* ALLOWED_OPS: the ast operator classes _eval applies.                    *)
(***************************************************************************)
ALLOWED_OPS == {"Add", "Sub", "Mult", "Div", "Pow", "USub", "UAdd", "Mod"}

\* ALLOWED_OPS[type(node.op)](left, right)
ApplyBinary(op, a, b) ==
    CASE op = "Add" -> op_add(a, b)
      [] op = "Sub" -> op_sub(a, b)
      [] op = "Mult" -> op_mul(a, b)
      [] op = "Div" -> op_truediv(a, b)
      [] op = "Pow" -> op_pow(a, b)
      [] op = "Mod" -> op_mod(a, b)

\* ALLOWED_OPS[type(node.op)](operand)
ApplyUnary(op, a) ==
    CASE op = "USub" -> op_neg(a)
      [] op = "UAdd" -> op_pos(a)

(***************************************************************************)
(* ALLOWED_NAMES: three constants and twelve functions of module math, in  *)
(* one mapping.                                                            *)
(***************************************************************************)
\* getattr(math, k): the floats pi, e, tau and the twelve functions
ALLOWED_NAMES ==
    [id \in {<<"p", "i">>, <<"e">>, <<"t", "a", "u">>}
            \cup {<<"s", "i", "n">>, <<"c", "o", "s">>, <<"t", "a", "n">>, <<"a", "s", "i", "n">>,
                    <<"a", "c", "o", "s">>, <<"a", "t", "a", "n">>,
                  <<"s", "q", "r", "t">>, <<"l", "o", "g">>, <<"l", "o", "g", "1", "0">>, <<"e",
                          "x", "p">>, <<"f", "l", "o", "o", "r">>, <<"c", "e", "i", "l">>} |->
        IF id \in {<<"p", "i">>, <<"e">>, <<"t", "a",
                "u">>} THEN ApproxV("float") ELSE BuiltinV(id)]

\* the exact square root of a perfect square, 0 when there is none
IntSqrt(n) ==
    IF \E r \in 0..n : r * r = n THEN CHOOSE r \in 0..n : r * r = n ELSE 0

\* math.<id>(x) for a real x
MathCall1(id, x) ==
    LET neg == IsTracked(x) /\ x.n < 0
        big == IsTracked(x) /\ Abs(x.n) > x.d
        one == IsTracked(x) /\ x.n = x.d
        DomainError == Raise("ValueError", <<"m", "a", "t", "h", " ", "d", "o", "m", "a", "i", "n",
                " ", "e", "r", "r", "o", "r">>)
    IN  CASE id = <<"f", "l", "o", "o", "r">> ->
                IF IsTracked(x) THEN IntV(FloorDiv(x.n, x.d)) ELSE ApproxV("int")
          [] id = <<"c", "e", "i", "l">> ->
                IF IsTracked(x) THEN IntV(-FloorDiv(-x.n, x.d)) ELSE ApproxV("int")
          [] id = <<"s", "q", "r", "t">> ->
                IF neg THEN DomainError
                ELSE IF IsTracked(x) /\ IntSqrt(x.n) * IntSqrt(x.n) = x.n
                        /\ IntSqrt(x.d) * IntSqrt(x.d) = x.d
                     THEN FloatV(IntSqrt(x.n), IntSqrt(x.d))
                ELSE ApproxV("float")
          [] id \in {<<"s", "i", "n">>, <<"t", "a", "n">>, <<"a", "t", "a", "n">>} ->
                IF IsZero(x) THEN FloatV(0, 1) ELSE ApproxV("float")
          [] id = <<"a", "s", "i", "n">> ->
                IF big THEN DomainError
                ELSE IF IsZero(x) THEN FloatV(0, 1) ELSE ApproxV("float")
          [] id = <<"a", "c", "o", "s">> ->
                IF big THEN DomainError
                ELSE IF one THEN FloatV(0, 1) ELSE ApproxV("float")
          [] id \in {<<"c", "o", "s">>, <<"e", "x", "p">>} ->
                IF IsZero(x) THEN FloatV(1, 1) ELSE ApproxV("float")
          [] id \in {<<"l", "o", "g">>, <<"l", "o", "g", "1", "0">>} ->
                IF neg \/ IsZero(x) THEN DomainError
                ELSE IF one THEN FloatV(0, 1) ELSE ApproxV("float")

\* fn(*args) for fn = ALLOWED_NAMES[id] and evaluated args
CallAllowed(id, args) ==
    LET fn == ALLOWED_NAMES[id]
        n == Len(args)
    IN  IF fn.k # "builtin" THEN
            Raise("TypeError", <<"'", "f", "l", "o", "a", "t", "'", " ", "o", "b", "j", "e", "c",
                    "t", " ", "i", "s", " ", "n", "o", "t", " ", "c", "a", "l", "l", "a", "b", "l",
                            "e">>)
        ELSE IF id = <<"l", "o", "g">> /\ n \notin {1, 2} THEN
            Raise("TypeError", <<"m", "a", "t", "h", ".", "l", "o", "g", " ", "r", "e", "q", "u",
                    "i", "r", "e", "s", " ", "1", " ", "t", "o", " ", "2", " ", "a", "r", "g", "u",
                            "m", "e", "n", "t", "s">>)
        ELSE IF id # <<"l", "o", "g">> /\ n # 1 THEN
            Raise("TypeError", <<"m", "a", "t", "h", ".">> \o id \o <<"(", ")", " ", "t", "a", "k",
                    "e", "s", " ", "e", "x", "a", "c", "t", "l", "y", " ", "o", "n", "e", " ", "a",
                            "r", "g", "u", "m", "e", "n", "t", " ", "(">>
                                 \o IntStr(n) \o <<" ", "g", "i", "v", "e", "n", ")">>)
        ELSE IF \E i \in 1..n : ~IsReal(args[i]) THEN
            LET i == SetMin({j \in 1..n : ~IsReal(args[j])})
            IN  Raise("TypeError", <<"m", "u", "s", "t", " ", "b", "e", " ", "r", "e", "a", "l",
                    " ", "n", "u", "m", "b", "e", "r", ",", " ", "n", "o", "t",
                            " ">> \o TypeName(args[i]))
        ELSE IF n = 2 THEN
            \* log(x, base) = log(x) / log(base)
            LET num == MathCall1(<<"l", "o", "g">>, args[1])
                den == MathCall1(<<"l", "o", "g">>, args[2])
            IN  IF IsRaise(num) THEN num
                ELSE IF IsRaise(den) THEN den
                ELSE op_truediv(num, den)
        ELSE MathCall1(id, args[1])

(***************************************************************************)
(* Expression trees: the ast node classes the model builds.                *)
(***************************************************************************)
Num(n) == [node |-> "Num", n |-> n]
Name(id) == [node |-> "Name", id |-> id]
BinOp(left, op, right) == [node |-> "BinOp", left |-> left, op |-> op, right |-> right]
UnaryOp(op, operand) == [node |-> "UnaryOp", op |-> op, operand |-> operand]
Call(func, args, keywords) ==
    [node |-> "Call", func |-> func, args |-> args, keywords |-> keywords]
keyword(arg, value) == [arg |-> arg, value |-> value]
Attribute(value, attr) == [node |-> "Attribute", value |-> value, attr |-> attr]
Compare(left, op, right) == [node |-> "Compare", left |-> left, op |-> op, right |-> right]

Unsupported == Raise("ValueError", <<"U", "n", "s", "u", "p", "p", "o", "r", "t", "e", "d", " ",
        "e", "x", "p", "r", "e", "s", "s", "i", "o", "n">>)

\* the first exception among evaluated operands, or none
FirstRaise(vals) ==
    LET bad == {i \in 1..Len(vals) : IsRaise(vals[i])}
    IN  IF bad = {} THEN <<>> ELSE <<vals[SetMin(bad)]>>

\* eval_expr._eval
RECURSIVE Eval(_)
Eval(node) ==
    IF node.node = "Num" THEN IntV(node.n)
    ELSE IF node.node = "BinOp" /\ node.op \in ALLOWED_OPS THEN
        LET vals == <<Eval(node.left), Eval(node.right)>>
        IN  IF FirstRaise(vals) # <<>> THEN FirstRaise(vals)[1]
            ELSE ApplyBinary(node.op, vals[1], vals[2])
    ELSE IF node.node = "UnaryOp" /\ node.op \in ALLOWED_OPS THEN
        LET val == Eval(node.operand)
        IN  IF IsRaise(val) THEN val ELSE ApplyUnary(node.op, val)
    ELSE IF node.node = "Call" /\ node.func.node = "Name"
            /\ node.func.id \in DOMAIN ALLOWED_NAMES THEN
        \* node.keywords is never read
        LET args == [i \in 1..Len(node.args) |-> Eval(node.args[i])]
        IN  IF FirstRaise(args) # <<>> THEN FirstRaise(args)[1]
            ELSE CallAllowed(node.func.id, args)
    ELSE IF node.node = "Name" /\ node.id \in DOMAIN ALLOWED_NAMES THEN
        ALLOWED_NAMES[node.id]
    ELSE Unsupported

(***************************************************************************)
(* ast.parse(expr, mode="eval"), for the part of Python's expression       *)
(* grammar the inputs of the model use: decimal integers, names, + - * /   *)
(* // % **, unary + - ~, <, parentheses, calls with positional and keyword *)
(* arguments, attribute access and the constants True, False and None.     *)
(* Every syntax error carries the message "invalid syntax".                *)
(***************************************************************************)
\* a token of Python source or a lexeme of JSON text: its kind and characters
Token(t, s) == [t |-> t, s |-> s]

\* the end of the longest run of digits, or of name characters, from i on
RunEnd(s, i, digits) ==
    SetMax({j \in i..Len(s) :
               \A m \in i..j : IF digits THEN IsDigit(s[m]) ELSE IsWordChar(s[m])})

\* the tokens of s from position i on; a "bad" token ends the sequence
RECURSIVE Tokens(_, _)
Tokens(s, i) ==
    IF i > Len(s) THEN <<>>
    ELSE IF IsSpace(s[i]) THEN Tokens(s, i + 1)
    ELSE IF IsDigit(s[i]) THEN
        LET j == RunEnd(s, i, TRUE)
        IN  IF j < Len(s) /\ IsWordChar(s[j + 1])
            THEN <<Token("bad", SubSeq(s, i, j + 1))>>
            ELSE <<Token("num", SubSeq(s, i, j))>> \o Tokens(s, j + 1)
    ELSE IF IsWordChar(s[i]) THEN
        LET j == RunEnd(s, i, FALSE)
        IN  <<Token("name", SubSeq(s, i, j))>> \o Tokens(s, j + 1)
    ELSE IF i < Len(s) /\ SubSeq(s, i, i + 1) \in {<<"*", "*">>, <<"/", "/">>} THEN
        <<Token("op", SubSeq(s, i, i + 1))>> \o Tokens(s, i + 2)
    ELSE IF <<s[i]>> \in {<<"+">>, <<"-">>, <<"*">>, <<"/">>, <<"%">>, <<"(">>, <<")">>, <<",">>,
            <<".">>,
                          <<"=">>, <<"<">>, <<"~">>, <<":">>} THEN
        <<Token("op", <<s[i]>>)>> \o Tokens(s, i + 1)
    ELSE <<Token("bad", <<s[i]>>)>>

\* int(digits)
RECURSIVE DigitsValue(_)
DigitsValue(ds) ==
    IF ds = <<>> THEN 0
    ELSE 10 * DigitsValue(SubSeq(ds, 1, Len(ds) - 1))
            + DigitValue[ds[Len(ds)]]

\* ast.Constant holding True, False or None: not an ast.Num
Constant(value) == [node |-> "Constant", value |-> value]

PyConstants == {<<"T", "r", "u", "e">>, <<"F", "a", "l", "s", "e">>, <<"N", "o", "n", "e">>}

\* what a parsing step gives: a node and the position of the next token
Parsed(node, pos) == [ok |-> TRUE, node |-> node, pos |-> pos]
NoParse == [ok |-> FALSE, node |-> Num(0), pos |-> 0]

IsOp(toks, p, sym) == p <= Len(toks) /\ toks[p].t = "op" /\ toks[p].s = sym
IsName(toks, p) ==
    p <= Len(toks) /\ toks[p].t = "name"
        /\ toks[p].s \notin PyConstants
        \* the keywords of Python are no names
        /\ toks[p].s \notin {<<"i", "f">>, <<"e", "l", "s", "e">>, <<"a", "n", "d">>, <<"o", "r">>,
                <<"n", "o", "t">>, <<"i", "n">>, <<"i", "s">>, <<"l", "a", "m", "b", "d", "a">>,
                             <<"f", "o", "r">>, <<"i", "m", "p", "o", "r", "t">>, <<"d", "e",
                                     "f">>, <<"c", "l", "a", "s", "s">>, <<"r", "e", "t", "u", "r",
                                             "n">>, <<"y", "i", "e", "l", "d">>,
                             <<"a", "w", "a", "i", "t">>}

\* the ast operator class of an operator token, unary or binary
OpClass(sym, unary) ==
    IF unary
    THEN CASE sym = <<"+">> -> "UAdd"
           [] sym = <<"-">> -> "USub"
           [] sym = <<"~">> -> "Invert"
    ELSE CASE sym = <<"+">> -> "Add"
           [] sym = <<"-">> -> "Sub"
           [] sym = <<"*">> -> "Mult"
           [] sym = <<"/">> -> "Div"
           [] sym = <<"/", "/">> -> "FloorDiv"
           [] sym = <<"%">> -> "Mod"

RECURSIVE ParseExpr(_, _, _), ParseRest(_, _, _, _), ParseFactor(_, _),
          ParseTrailers(_, _, _), ParseArgs(_, _, _, _), ParseAtom(_, _)

\* atom: NUMBER | NAME | True | False | None | '(' expression ')'
ParseAtom(toks, p) ==
    IF p > Len(toks) THEN NoParse
    ELSE IF toks[p].t = "num" THEN Parsed(Num(DigitsValue(toks[p].s)), p + 1)
    ELSE IF IsName(toks, p) THEN Parsed(Name(toks[p].s), p + 1)
    ELSE IF toks[p].t = "name" /\ toks[p].s \in PyConstants THEN
        Parsed(Constant(toks[p].s), p + 1)
    ELSE IF IsOp(toks, p, <<"(">>) THEN
        LET Close(r) ==
                IF r.ok /\ IsOp(toks, r.pos, <<")">>) THEN Parsed(r.node, r.pos + 1)
                ELSE NoParse
        IN  Close(ParseExpr(toks, p + 1, 1))
    ELSE NoParse

\* arguments: positional ones, then name=value ones, up to the ')'
ParseArgs(toks, p, args, keywords) ==
    IF IsOp(toks, p, <<")">>) THEN Parsed([args |-> args, keywords |-> keywords], p + 1)
    ELSE
        LET Argument(kw, r) ==
                LET args2 == IF kw THEN args ELSE Append(args, r.node)
                    keywords2 ==
                        IF kw THEN Append(keywords, keyword(toks[p].s, r.node))
                        ELSE keywords
                IN  IF ~r.ok \/ (~kw /\ keywords # <<>>) THEN NoParse
                    ELSE IF IsOp(toks, r.pos, <<",">>) THEN
                        ParseArgs(toks, r.pos + 1, args2, keywords2)
                    ELSE IF IsOp(toks, r.pos, <<")">>) THEN
                        Parsed([args |-> args2, keywords |-> keywords2], r.pos + 1)
                    ELSE NoParse
        IN  IF IsName(toks, p) /\ IsOp(toks, p + 1, <<"=">>)
            THEN Argument(TRUE, ParseExpr(toks, p + 2, 1))
            ELSE Argument(FALSE, ParseExpr(toks, p, 1))

\* primary: atom followed by calls '(' ... ')' and attributes '.' NAME
ParseTrailers(toks, node, p) ==
    IF IsOp(toks, p, <<"(">>) THEN
        LET Called(a) ==
                IF a.ok
                THEN ParseTrailers(toks, Call(node, a.node.args, a.node.keywords),
                                   a.pos)
                ELSE NoParse
        IN  Called(ParseArgs(toks, p + 1, <<>>, <<>>))
    ELSE IF IsOp(toks, p, <<".">>) THEN
        IF IsName(toks, p + 1)
        THEN ParseTrailers(toks, Attribute(node, toks[p + 1].s), p + 2)
        ELSE NoParse
    ELSE Parsed(node, p)

\* factor: ('+' | '-' | '~') factor | power
\* power: primary ['**' factor], right-associative
ParseFactor(toks, p) ==
    LET Signed(r) ==
            IF r.ok THEN Parsed(UnaryOp(OpClass(toks[p].s, TRUE), r.node), r.pos)
            ELSE NoParse
        Raised(b, r) ==
            IF r.ok THEN Parsed(BinOp(b.node, "Pow", r.node), r.pos) ELSE NoParse
        Power(b) ==
            IF b.ok /\ IsOp(toks, b.pos, <<"*", "*">>)
            THEN Raised(b, ParseFactor(toks, b.pos + 1))
            ELSE b
        Primary(a) ==
            IF a.ok THEN Power(ParseTrailers(toks, a.node, a.pos)) ELSE NoParse
    IN  IF \E sym \in {<<"+">>, <<"-">>, <<"~">>} : IsOp(toks, p, sym)
        THEN Signed(ParseFactor(toks, p + 1))
        ELSE Primary(ParseAtom(toks, p))

\* the operators of a level that follow the operand left, left-associative
ParseRest(toks, left, p, level) ==
    LET ops == CASE level = 1 -> {<<"<">>}
                 [] level = 2 -> {<<"+">>, <<"-">>}
                 [] level = 3 -> {<<"*">>, <<"/">>, <<"/", "/">>, <<"%">>}
        Joined(r) ==
            IF ~r.ok THEN NoParse
            ELSE IF level = 1
            THEN ParseRest(toks, Compare(left, "Lt", r.node), r.pos, level)
            ELSE ParseRest(toks, BinOp(left, OpClass(toks[p].s, FALSE), r.node),
                           r.pos, level)
    IN  IF p <= Len(toks) /\ toks[p].t = "op" /\ toks[p].s \in ops THEN
            IF level = 3 THEN Joined(ParseFactor(toks, p + 1))
            ELSE Joined(ParseExpr(toks, p + 1, level + 1))
        ELSE Parsed(left, p)

\* the expression of a precedence level, 1 comparison: arith ('<' arith)*,
\* 2 arith: term (('+' | '-') term)*, 3 term: factor (('*' | '/' | '//' | '%') factor)*
ParseExpr(toks, p, level) ==
    LET Operand(l) ==
            IF l.ok THEN ParseRest(toks, l.node, l.pos, level) ELSE NoParse
    IN  IF level = 3 THEN Operand(ParseFactor(toks, p))
        ELSE Operand(ParseExpr(toks, p, level + 1))

SyntaxError(line) ==
    Raise("SyntaxError", <<"i", "n", "v", "a", "l", "i", "d", " ", "s", "y", "n", "t", "a", "x",
            " ", "(", "<", "u", "n", "k", "n", "o", "w", "n", ">", ",", " ", "l", "i", "n", "e",
                    " ">> \o line \o <<")">>)

\* ast.parse(expr, mode="eval"): the tree, or the exception raised
ast_parse(s) ==
    LET Failed(err) == [ok |-> FALSE, body |-> Num(0), err |-> err]
        Tree(toks, r) ==
            IF toks[Len(toks)].t = "bad" \/ ~r.ok \/ r.pos # Len(toks) + 1
            THEN Failed(SyntaxError(<<"1">>))
            ELSE [ok |-> TRUE, body |-> r.node, err |-> Unsupported]
        Tokenized(toks) ==
            IF toks = <<>> THEN Failed(SyntaxError(<<"0">>))
            ELSE Tree(toks, ParseExpr(toks, 1, 1))
    IN  IF s # <<>> /\ IsSpace(s[1]) THEN
            Failed(Raise("IndentationError",
                         <<"u", "n", "e", "x", "p", "e", "c", "t", "e", "d", " ", "i", "n", "d",
                                 "e", "n", "t", " ", "(", "<", "u", "n", "k", "n", "o", "w", "n",
                                         ">", ",", " ", "l", "i", "n", "e", " ", "1", ")">>))
        ELSE Tokenized(Tokens(s, 1))

\* eval_expr: the value _eval gives, or the exception raised on the way
eval_expr(s) ==
    LET Body(tree) == IF tree.ok THEN Eval(tree.body) ELSE tree.err
    IN  Body(ast_parse(s))

(***************************************************************************)
(* Simple knowledge base and reply texts.                                  *)
(***************************************************************************)
FACTS == <<
    [key |-> <<"p", "y", "t", "h", "o", "n">>,
     ans |-> <<"P", "y", "t", "h", "o", "n", " ", "i", "s", " ", "a", " ", "p", "o", "p", "u", "l",
             "a", "r", " ", "p", "r", "o", "g", "r", "a", "m", "m", "i", "n", "g", " ", "l", "a",
                     "n", "g", "u", "a", "g", "e", " ", "k", "n", "o", "w", "n", " ", "f", "o",
                             "r", " ", "r", "e", "a", "d", "a", "b", "i", "l", "i", "t", "y", " ",
                                     "a", "n", "d", " ", "v", "e", "r", "s", "a", "t", "i", "l",
                                             "i", "t", "y", ".">>],
    [key |-> <<"o", "p", "e", "n", "a", "i">>,
     ans |-> <<"O", "p", "e", "n", "A", "I", " ", "r", "e", "s", "e", "a", "r", "c", "h", "e", "s",
             " ", "a", "n", "d", " ", "b", "u", "i", "l", "d", "s", " ", "s", "a", "f", "e", ",",
                     " ", "u", "s", "e", "f", "u", "l", " ", "A", "I", " ", "s", "y", "s", "t",
                             "e", "m", "s", ".">>],
    [key |-> <<"m", "a", "n", "i", "l", "a">>,
     ans |-> <<"M", "a", "n", "i", "l", "a", " ", "i", "s", " ", "t", "h", "e", " ", "c", "a", "p",
             "i", "t", "a", "l", " ", "o", "f", " ", "t", "h", "e", " ", "P", "h", "i", "l", "i",
                     "p", "p", "i", "n", "e", "s", ".">>],
    [key |-> <<"p", "l", "a", "n", "e", "t">>,
     ans |-> <<"T", "h", "e", "r", "e", " ", "a", "r", "e", " ", "e", "i", "g", "h", "t", " ", "p",
             "l", "a", "n", "e", "t", "s", " ", "i", "n", " ", "o", "u", "r", " ", "S", "o", "l",
                     "a", "r", " ", "S", "y", "s", "t", "e", "m", ".">>] >>

JOKES == <<
    <<"W", "h", "y", " ", "d", "i", "d", " ", "t", "h", "e", " ", "d", "e", "v", "e", "l", "o",
            "p", "e", "r", " ", "g", "o", " ", "b", "r", "o", "k", "e", "?", " ", "B", "e", "c",
                    "a", "u", "s", "e", " ", "t", "h", "e", "y", " ", "u", "s", "e", "d", " ", "u",
                            "p", " ", "a", "l", "l", " ", "t", "h", "e", "i", "r", " ", "c", "a",
                                    "c", "h", "e", ".">>,
    <<"I", " ", "w", "o", "u", "l", "d", " ", "t", "e", "l", "l", " ", "y", "o", "u", " ", "a",
            " ", "U", "D", "P", " ", "j", "o", "k", "e", ",", " ", "b", "u", "t", " ", "y", "o",
                    "u", " ", "m", "i", "g", "h", "t", " ", "n", "o", "t", " ", "g", "e", "t", " ",
                            "i", "t", ".">>,
    <<"D", "e", "b", "u", "g", "g", "i", "n", "g", ":", " ", "b", "e", "i", "n", "g", " ", "t",
            "h", "e", " ", "d", "e", "t", "e", "c", "t", "i", "v", "e", " ", "i", "n", " ", "a",
                    " ", "c", "r", "i", "m", "e", " ", "m", "o", "v", "i", "e", " ", "w", "h", "e",
                            "r", "e", " ", "y", "o", "u", " ", "a", "r", "e", " ", "a", "l", "s",
                                    "o", " ", "t", "h", "e", " ", "m", "u", "r", "d", "e", "r",
                                            "e", "r", ".">> >>

EMOJI == [happy |-> <<"U+1F642">>, sad |-> <<"U+1F641">>, wave |-> <<"U+1F44B">>,
        bot |-> <<"U+1F916">>]

(***************************************************************************)
(* NAME_PAT = \bmy\s+name\s+is\s+([A-Za-z][A-Za-z\-\'\s]{0,30})\b, re.I    *)
(***************************************************************************)
\* the {0,30} of the group
NameMaxExtra == 30

\* \b after the first j characters of s
WordBoundary(s, j) ==
    LET before == j >= 1 /\ j <= Len(s) /\ IsWordChar(s[j])
        after == j + 1 >= 1 /\ j + 1 <= Len(s) /\ IsWordChar(s[j + 1])
    IN  before # after

\* the literal w at position p of s, ignoring case
LiteralAt(s, p, w) ==
    p + Len(w) - 1 <= Len(s) /\ Lower(SubSeq(s, p, p + Len(w) - 1)) = w

\* where a greedy \s* starting at p stops
SkipSpaces(s, p) ==
    SetMin({q \in p..(Len(s) + 1) : q = Len(s) + 1 \/ ~IsSpace(s[q])})

\* group 1 of a match of NAME_PAT starting at position i, << >> when none
NameGroupAt(s, i) ==
    LET q1 == SkipSpaces(s, i + 2)
        q2 == SkipSpaces(s, q1 + 4)
        g == SkipSpaces(s, q2 + 2)
        \* the greedy {0,30}: the most characters after which \b holds
        ks == {n \in 0..NameMaxExtra :
                  /\ g + n <= Len(s)
                  /\ \A m \in 1..n :  \* [A-Za-z\-\'\s]
                        \/ IsLetter(s[g + m]) \/ IsSpace(s[g + m])
                        \/ s[g + m] \in {"-", "'"}
                  /\ WordBoundary(s, g + n)}
    IN  IF /\ WordBoundary(s, i - 1)
           /\ LiteralAt(s, i, <<"m", "y">>)
           /\ q1 > i + 2
           /\ LiteralAt(s, q1, <<"n", "a", "m", "e">>)
           /\ q2 > q1 + 4
           /\ LiteralAt(s, q2, <<"i", "s">>)
           /\ g > q2 + 2
           /\ g <= Len(s)
           /\ IsLetter(s[g])
           /\ ks # {}
        THEN SubSeq(s, g, g + SetMax(ks))
        ELSE <<>>

\* NAME_PAT.search(s): group 1 of the leftmost match, << >> when none
NAME_PAT_search(s) ==
    LET starts == {i \in 1..Len(s) : NameGroupAt(s, i) # <<>>}
    IN  IF starts = {} THEN <<>> ELSE NameGroupAt(s, SetMin(starts))

(***************************************************************************)
(* Chatbot                                                                 *)
(***************************************************************************)
\* Chatbot.__init__
NewMemory == PyDict([key \in {K_name, K_history} |->
                        IF key = K_name THEN PyNone ELSE PyList(<<>>)])

\* the local datetimes now() may read
Times == <<[y |-> 2024, mo |-> 2, d |-> 9, h |-> 7, mi |-> 5],
           [y |-> 2025, mo |-> 12, d |-> 31, h |-> 23, mi |-> 59]>>

\* Chatbot.now: strftime("%Y-%m-%d %H:%M")
now(t) ==
    ZeroPad(t.y, 4) \o <<"-">> \o ZeroPad(t.mo, 2) \o <<"-">> \o ZeroPad(t.d, 2)
        \o <<" ">> \o ZeroPad(t.h, 2) \o <<":">> \o ZeroPad(t.mi, 2)

\* what a method call gives: the line it returned or raised at (at), the
\* value returned (ret), the exception class raised ("" when none), the
\* memory it leaves (mem), and for respond the string handed to eval_expr
Return(at, ret, mem) ==
    [at |-> at, ret |-> ret, exc |-> "", mem |-> mem, expr |-> <<>>]
Throw(at, exc, mem) ==
    [at |-> at, ret |-> <<>>, exc |-> exc, mem |-> mem, expr |-> <<>>]

\* Chatbot._remember_name: the name learned (<< >> for None)
remember_name(text, mem) ==
    LET m == NAME_PAT_search(text)
        name == Title(Strip(m))
    IN  IF m = <<>> THEN Return(116, <<>>, mem)
        ELSE IF mem.ty # "dict" THEN
            \* self.memory["name"] = name on an object that is no dict
            Throw(114, "TypeError", mem)
        ELSE Return(115, name, DictSet(mem, K_name, PyStr(name)))

\* a reset that answers without clearing the history
reset_keeps_history(mem) ==
    IF mem.ty # "dict" THEN Throw(131, "AttributeError", mem)
    ELSE Return(133, <<"O", "k", "a", "y", ",", " ", "I", " ", "c", "l", "e", "a", "r", "e", "d",
            " ", "t", "h", "e", " ", "c", "h", "a", "t", " ", "h", "i", "s", "t", "o", "r", "y",
                    " ", "b", "u", "t", " ", "k", "e", "p", "t", " ", "y", "o", "u", "r", " ", "n",
                            "a", "m", "e", ".">>, mem)

\* a reset that builds the fresh record of __init__, the name forgotten
reset_forgets_name(mem) ==
    IF mem.ty # "dict" THEN Throw(131, "AttributeError", mem)
    ELSE Return(133, <<"O", "k", "a", "y", ",", " ", "I", " ", "c", "l", "e", "a", "r", "e", "d",
            " ", "t", "h", "e", " ", "c", "h", "a", "t", " ", "h", "i", "s", "t", "o", "r", "y",
                    " ", "b", "u", "t", " ", "k", "e", "p", "t", " ", "y", "o", "u", "r", " ", "n",
                            "a", "m", "e", ".">>,
                NewMemory)

\* Chatbot.reset
reset(mem) ==
    IF mem.ty # "dict" THEN
        \* self.memory.get on an object that is no dict
        Throw(131, "AttributeError", mem)
    ELSE Return(133, <<"O", "k", "a", "y", ",", " ", "I", " ", "c", "l", "e", "a", "r", "e", "d",
            " ", "t", "h", "e", " ", "c", "h", "a", "t", " ", "h", "i", "s", "t", "o", "r", "y",
                    " ", "b", "u", "t", " ", "k", "e", "p", "t", " ", "y", "o", "u", "r", " ", "n",
                            "a", "m", "e", ".">>,
                PyDict([key \in {K_name, K_history} |->
                           IF key = K_name THEN DictGet(mem, K_name)
                           ELSE PyList(<<>>)]))

\* the digits after the point of r/d (0 <= r < d, d a product of 2s and 5s)
RECURSIVE FractionDigits(_, _)
FractionDigits(r, d) ==
    IF r = 0 THEN <<>>
    ELSE <<DigitChars[((10 * r) \div d) + 1]>> \o FractionDigits((10 * r) % d, d)

RECURSIVE Terminates(_)
Terminates(d) ==
    IF d = 1 THEN TRUE
    ELSE IF d % 2 = 0 THEN Terminates(d \div 2)
    ELSE IF d % 5 = 0 THEN Terminates(d \div 5)
    ELSE FALSE

\* str(val) inside the f-string of the calculator's reply; the digits of a
\* float that is untracked or has no finite expansion are not modelled
ValStr(val) ==
    CASE val.k = "builtin" -> <<"<", "b", "u", "i", "l", "t", "-", "i", "n", " ", "f", "u", "n",
            "c", "t", "i", "o", "n", " ">> \o val.s \o <<">">>
      [] val.k = "complex" -> <<"<", "c", "o", "m", "p", "l", "e", "x", ">">>
      [] val.k = "int" -> IF val.d = 0 THEN <<"<", "i", "n", "t", ">">> ELSE IntStr(val.n)
      [] val.k = "float" ->
            IF val.d = 0 \/ ~Terminates(val.d) THEN <<"<", "f", "l", "o", "a", "t", ">">>
            ELSE LET a == Abs(val.n)
                     frac == FractionDigits(a % val.d, val.d)
                 IN  (IF val.n < 0 THEN <<"-">> ELSE <<>>)
                        \o NatDigits(a \div val.d) \o <<".">>
                        \o (IF frac = <<>> THEN <<"0">> ELSE frac)

\* the keywords of respond's tests
GreetingWords == <<<<"h", "e", "l", "l", "o">>, <<"h", "i">>, <<"h", "e", "y">>>>
GratitudeWords == <<<<"t", "h", "a", "n", "k">>, <<"t", "h", "a", "n", "k", "s">>, <<"t", "y">>>>
FarewellWords == <<<<"b", "y", "e">>, <<"g", "o", "o", "d", "b", "y", "e">>, <<"q", "u", "i",
        "t">>, <<"e", "x", "i", "t">>>>
TimeDateWords == <<<<"t", "i", "m", "e">>, <<"d", "a", "t", "e">>>>
JokeWords == <<<<"j", "o", "k", "e">>>>
NegativeWords == <<<<"s", "a", "d">>, <<"d", "o", "w", "n">>, <<"t", "i", "r", "e", "d">>, <<"s",
        "t", "r", "e", "s", "s", "e", "d">>>>
PositiveWords == <<<<"g", "r", "e", "a", "t">>, <<"a", "w", "e", "s", "o", "m", "e">>, <<"h", "a",
        "p", "p", "y">>, <<"g", "o", "o", "d">>>>

\* the keyword tests of respond
IsGreeting(low) == AnyIn(low, GreetingWords)
IsGratitude(low) == AnyIn(low, GratitudeWords)
IsFarewell(low) == AnyIn(low, FarewellWords)
IsTimeDate(low) == Contains(low, TimeDateWords[1]) \/ Contains(low, TimeDateWords[2])
IsJoke(low) == Contains(low, JokeWords[1])
IsCalc(low) == StartsWith(low, <<"c", "a", "l", "c", ":">>) \/ StartsWith(low, <<"c", "a", "l",
        "c", " ">>)
IsFact(low) == \E i \in 1..Len(FACTS) : Contains(low, FACTS[i].key)
IsNegative(low) == AnyIn(low, NegativeWords)
IsPositive(low) == AnyIn(low, PositiveWords)

FALLBACK ==
    <<"I", " ", "d", "i", "d", "n", "'", "t", " ", "q", "u", "i", "t", "e", " ", "g", "e", "t",
            " ", "t", "h", "a", "t", ".", " ", "T", "r", "y", " ", "/", "h", "e", "l", "p", " ",
                    "o", "r", " ", "s", "a", "y", " ", "'", "j", "o", "k", "e", "'", ",", " ", "'",
                            "t", "i", "m", "e", "'", ",", " ", "o", "r", " ", "'", "c", "a", "l",
                                    "c", ":", " ", "2", "*", "(", "3", "+", "4", ")", "'", ".">>

NiceToMeet(learned) == <<"N", "i", "c", "e", " ", "t", "o", " ", "m", "e", "e", "t", " ", "y", "o",
        "u", ",", " ">> \o learned \o <<"!", " ">> \o EMOJI.wave

\* f"Hey{' ' + name if name else ''}! I'm {EMOJI['bot']} ..."
GreetingReply(name) ==
    <<"H", "e", "y">> \o (IF Truthy(name) THEN <<" ">> \o name.v ELSE <<>>) \o <<"!", " ", "I",
            "'", "m", " ">>
        \o EMOJI.bot \o <<" ", "U+2014", " ", "a", "s", "k", " ", "m", "e", " ", "s", "t", "u",
                "f", "f", " ", "o", "r", " ", "t", "y", "p", "e", " ", "/", "h", "e", "l", "p",
                        ".">>

\* f"...{',' if name else ''} {name or ''}...": ", <name>" or " "
NegativeReply(name) ==
    <<"S", "o", "r", "r", "y", " ", "y", "o", "u", "'", "r", "e", " ", "f", "e", "e", "l", "i",
            "n", "g", " ", "t", "h", "a", "t", " ", "w", "a", "y">>
        \o (IF Truthy(name) THEN <<",", " ">> \o StrOf(name) ELSE <<" ">>)
        \o <<".", " ", "I", "'", "m", " ", "h", "e", "r", "e", " ", "t", "o", " ", "l", "i", "s",
                "t", "e", "n", ".", " ">> \o EMOJI.sad

PositiveReply(name) ==
    <<"L", "o", "v", "e", " ", "t", "o", " ", "h", "e", "a", "r", " ", "t", "h", "a", "t">>
        \o (IF Truthy(name) THEN <<",", " ">> \o StrOf(name) ELSE <<" ">>)
        \o <<"!", " ">> \o EMOJI.happy

\* the calculator rule: split off the expression, evaluate, report
CalcReply(text, mem) ==
    LET e == IF Contains(text, <<":">>) THEN AfterFirst(text, ":")
             ELSE AfterFirst(text, " ")
        val == eval_expr(e)
    IN  IF IsRaise(val)
        THEN [Return(173, <<"I", " ", "c", "o", "u", "l", "d", "n", "'", "t", " ", "c", "o", "m",
                "p", "u", "t", "e", " ", "t", "h", "a", "t", ":", " ">> \o val.s, mem)
                EXCEPT !.expr = e]
        ELSE [Return(171, Strip(e) \o <<" ", "=", " ">> \o ValStr(val), mem)
                EXCEPT !.expr = e]

\* for key, ans in FACTS.items(): if key in low: return ans
FactReply(low) ==
    FACTS[SetMin({i \in 1..Len(FACTS) : Contains(low, FACTS[i].key)})].ans

\* the sentiment cue with its two tests in the other order
SentimentReply_positive_first(low, name, mem) ==
    IF IsPositive(low) THEN Return(184, PositiveReply(name), mem)
    ELSE IF IsNegative(low) THEN Return(182, NegativeReply(name), mem)
    ELSE Return(187, FALLBACK, mem)

\* the light sentiment cue: the negative words first, then the positive
SentimentReply(low, name, mem) ==
    IF IsNegative(low) THEN Return(182, NegativeReply(name), mem)
    ELSE IF IsPositive(low) THEN Return(184, PositiveReply(name), mem)
    ELSE Return(187, FALLBACK, mem)

\* Chatbot.respond; j is what random.choice draws, t what now() reads
respond(line, mem, j, t) ==
    LET text == Strip(line)
        learned == remember_name(text, mem)
        low == Lower(text)
        name == DictGet(mem, K_name)
    IN  IF text = <<>> THEN Return(139, <<"S", "a", "y", " ", "s", "o", "m", "e", "t", "h", "i",
            "n", "g", " ", "a", "n", "d", " ", "I", "'", "l", "l", " ", "r", "e", "p", "l", "y",
                    "!">>, mem)
        ELSE IF learned.exc # "" THEN learned
        ELSE IF learned.ret # <<>> THEN
            Return(144, NiceToMeet(learned.ret), learned.mem)
        ELSE IF mem.ty # "dict" THEN
            \* self.memory.get on an object that is no dict
            Throw(147, "AttributeError", mem)
        ELSE IF IsGreeting(low) THEN
            IF Truthy(name) /\ name.ty # "str"
            THEN Throw(151, "TypeError", mem)  \* ' ' + name
            ELSE Return(151, GreetingReply(name), mem)
        ELSE IF IsGratitude(low) THEN Return(153, <<"Y", "o", "u", "'", "r", "e", " ", "w", "e",
                "l", "c", "o", "m", "e", "!">>, mem)
        ELSE IF IsFarewell(low) THEN 
            Return(155, <<"B", "y", "e", "!", " ", "T", "y", "p", "e", " ", "/", "q", "u", "i",
                    "t", " ", "t", "o", " ", "l", "e", "a", "v", "e", " ", "t", "h", "e", " ", "p",
                            "r", "o", "g", "r", "a", "m", ".">>, mem)
        ELSE IF IsTimeDate(low) THEN Return(159, <<"I", "t", "'", "s", " ">> \o now(t) \o <<".">>,
                mem)
        ELSE IF IsJoke(low) THEN Return(164, JOKES[j], mem)
        ELSE IF IsCalc(low) THEN CalcReply(text, mem)
        ELSE IF IsFact(low) THEN Return(178, FactReply(low), mem)
        ELSE SentimentReply(low, name, mem)

(***************************************************************************)
(* json.dump / json.load and the files they write and read.                *)
(* A lexeme is a record [t, s]: t its kind and s its characters.           *)
(***************************************************************************)

\* a lone surrogate: a character a str can hold and UTF-8 cannot encode
SURROGATE == "U+D800"

\* the characters of a JSON string literal for the str s (py_encode_basestring
\* when ascii is FALSE, py_encode_basestring_ascii when it is TRUE)
RECURSIVE Escape(_, _)
Escape(s, ascii) ==
    IF s = <<>> THEN <<>>
    ELSE (CASE s[1] = "\"" -> <<"\\", "\"">>
            [] s[1] = "\\" -> <<"\\", "\\">>
            [] s[1] = "\t" -> <<"\\", "t">>
            [] s[1] = SURROGATE /\ ascii -> <<"\\", "u", "d", "8", "0", "0">>
            [] OTHER -> <<s[1]>>) \o Escape(Tail(s), ascii)

\* the str a JSON string literal denotes; << "bad" >> marks an invalid escape
RECURSIVE Unescape(_)
Unescape(s) ==
    IF s = <<>> THEN [ok |-> TRUE, s |-> <<>>]
    ELSE IF s[1] # "\\" THEN
        LET r == Unescape(Tail(s))
        IN  [r EXCEPT !.s = <<s[1]>> \o r.s]
    ELSE IF Len(s) >= 2 /\ s[2] \in {"\"", "\\", "t"} THEN
        LET r == Unescape(SubSeq(s, 3, Len(s)))
        IN  [r EXCEPT !.s = <<IF s[2] = "t" THEN "\t" ELSE s[2]>> \o r.s]
    ELSE IF Len(s) >= 6 /\ SubSeq(s, 1, 6) = <<"\\", "u", "d", "8", "0", "0">> THEN
        LET r == Unescape(SubSeq(s, 7, Len(s)))
        IN  [r EXCEPT !.s = <<SURROGATE>> \o r.s]
    ELSE [ok |-> FALSE, s |-> <<>>]

\* json.dumps(x, ensure_ascii=ascii): the lexemes of the text.  The keys of a
\* dict are written in one fixed order; json.load does not depend on it.
RECURSIVE Dumps(_, _), DumpsItems(_, _), DumpsMembers(_, _, _)
Dumps(x, ascii) ==
    CASE x.ty = "NoneType" -> <<Token("literal", <<"n", "u", "l", "l">>)>>
      [] x.ty = "str" -> <<Token("string", Escape(x.v, ascii))>>
      [] x.ty = "int" -> <<Token("number", x.v)>>
      [] x.ty = "list" -> <<Token("punct", <<"[">>)>> \o DumpsItems(x.v, ascii) \o <<Token("punct",
              <<"]">>)>>
      [] x.ty = "dict" ->
            <<Token("punct", <<"{">>)>> \o DumpsMembers(x.v, DOMAIN x.v, ascii) \o <<Token("punct",
                    <<"}">>)>>

DumpsItems(l, ascii) ==
    IF l = <<>> THEN <<>>
    ELSE IF Len(l) = 1 THEN Dumps(l[1], ascii)
    ELSE Dumps(l[1], ascii) \o <<Token("punct", <<",">>)>> \o DumpsItems(Tail(l), ascii)

DumpsMembers(f, keys, ascii) ==
    IF keys = {} THEN <<>>
    ELSE LET key == CHOOSE c \in keys : \A o \in keys : Len(c) <= Len(o)
             member == <<Token("string", Escape(key, ascii)), Token("punct", <<":">>)>>
                          \o Dumps(f[key], ascii)
         IN  IF keys = {key} THEN member
             ELSE member \o <<Token("punct", <<",">>)>> \o DumpsMembers(f, keys \ {key}, ascii)

\* json.loads: a value and the position after it, or no value
Loaded(val, pos) == [ok |-> TRUE, val |-> val, pos |-> pos]
NoValue == [ok |-> FALSE, val |-> PyNone, pos |-> 0]

IsPunct(toks, p, c) == p <= Len(toks) /\ toks[p] = Token("punct", c)

RECURSIVE LoadValue(_, _), LoadItems(_, _, _), LoadMembers(_, _, _)
LoadValue(toks, p) ==
    IF p > Len(toks) THEN NoValue
    ELSE IF toks[p] = Token("literal", <<"n", "u", "l", "l">>) THEN Loaded(PyNone, p + 1)
    ELSE IF toks[p].t = "number" THEN
        Loaded(PyInt(toks[p].s), p + 1)
    ELSE IF toks[p].t = "string" THEN
        LET u == Unescape(toks[p].s)
        IN  IF u.ok THEN Loaded(PyStr(u.s), p + 1) ELSE NoValue
    ELSE IF IsPunct(toks, p, <<"[">>) THEN
        IF IsPunct(toks, p + 1, <<"]">>) THEN Loaded(PyList(<<>>), p + 2)
        ELSE LoadItems(toks, p + 1, <<>>)
    ELSE IF IsPunct(toks, p, <<"{">>) THEN
        IF IsPunct(toks, p + 1, <<"}">>) THEN Loaded(PyDict(<<>>), p + 2)
        ELSE LoadMembers(toks, p + 1, PyDict(<<>>))
    ELSE NoValue

\* the items of an array from position p on, after those in acc
LoadItems(toks, p, acc) ==
    LET r == LoadValue(toks, p)
    IN  IF ~r.ok THEN NoValue
        ELSE IF IsPunct(toks, r.pos, <<",">>)
            THEN LoadItems(toks, r.pos + 1, Append(acc, r.val))
        ELSE IF IsPunct(toks, r.pos, <<"]">>)
            THEN Loaded(PyList(Append(acc, r.val)), r.pos + 1)
        ELSE NoValue

\* the members of an object from position p on, added to the dict acc
LoadMembers(toks, p, acc) ==
    LET key == IF p <= Len(toks) /\ toks[p].t = "string"
               THEN Unescape(toks[p].s) ELSE [ok |-> FALSE, s |-> <<>>]
        r == IF key.ok /\ IsPunct(toks, p + 1, <<":">>)
             THEN LoadValue(toks, p + 2) ELSE NoValue
    IN  IF ~r.ok THEN NoValue
        ELSE IF IsPunct(toks, r.pos, <<",">>)
            THEN LoadMembers(toks, r.pos + 1, DictSet(acc, key.s, r.val))
        ELSE IF IsPunct(toks, r.pos, <<"}">>)
            THEN Loaded(DictSet(acc, key.s, r.val), r.pos + 1)
        ELSE NoValue

\* json.loads(text): the whole text must be one value
Loads(toks) ==
    LET r == LoadValue(toks, 1)
    IN  IF r.ok /\ r.pos = Len(toks) + 1 THEN r ELSE NoValue

\* what a path names
NoFile == [kind |-> "absent", toks |-> <<>>]
Directory == [kind |-> "dir", toks |-> <<>>]
File(toks) == [kind |-> "file", toks |-> toks]

\* the lexemes that cannot be written to a UTF-8 file
Unencodable(toks) == {i \in 1..Len(toks) : SURROGATE \in Range(toks[i].s)}

\* what reaches the file when the write of lexeme i fails: the chunks before
\* it (an array writes each string together with the '[' or ',' before it)
WrittenBefore(toks, i) ==
    IF i > 1 /\ toks[i - 1] \in {Token("punct", <<"[">>), Token("punct", <<",">>)}
    THEN SubSeq(toks, 1, i - 2)
    ELSE SubSeq(toks, 1, i - 1)

\* Chatbot.save: mem is unchanged; fs is the file system it leaves
save(path, mem, fs) ==
    LET toks == Dumps(mem, FALSE)
        bad == Unencodable(toks)
        done(at, ret, exc, content) ==
            [at |-> at, ret |-> ret, exc |-> exc, mem |-> mem,
             fs |-> [fs EXCEPT ![path] = content]]
    IN  IF fs[path].kind = "dir" THEN
            done(120, <<>>, "IsADirectoryError", fs[path])
        ELSE IF bad # {} THEN
            done(121, <<>>, "UnicodeEncodeError",
                 File(WrittenBefore(toks, SetMin(bad))))
        ELSE done(122, <<"S", "a", "v", "e", "d", " ", "c", "o", "n", "v", "e", "r", "s", "a", "t",
                "i", "o", "n", " ", "t", "o", " ">> \o path, "", File(toks))

\* Chatbot.load: self.memory is assigned only when json.load returned
load(path, mem, fs) ==
    LET r == Loads(fs[path].toks)
        done(at, ret, exc, m) ==
            [at |-> at, ret |-> ret, exc |-> exc, mem |-> m, fs |-> fs]
    IN  IF fs[path].kind = "absent" THEN
            done(126, <<>>, "FileNotFoundError", mem)
        ELSE IF fs[path].kind = "dir" THEN
            done(126, <<>>, "IsADirectoryError", mem)
        ELSE IF ~r.ok THEN done(127, <<>>, "JSONDecodeError", mem)
        ELSE done(128, <<"L", "o", "a", "d", "e", "d", " ", "c", "o", "n", "v", "e", "r", "s", "a",
                "t", "i", "o", "n", " ", "f", "r", "o", "m", " ">> \o path, "", r.val)

(***************************************************************************)
(* CLI shell: main.                                                        *)
(***************************************************************************)
BANNER == <<"C", "h", "a", "t", "b", "o", "t", " ", "r", "e", "a", "d", "y",
        " ">> \o EMOJI.bot \o <<" ", "U+2014", " ", "t", "y", "p", "e", " ", "/", "h", "e", "l",
                "p", " ", "f", "o", "r", " ", "t", "i", "p", "s", ".", "\n">>

HELP ==
    <<"\n", "C", "o", "m", "m", "a", "n", "d", "s", ":", "\n">>
    \o <<" ", " ", "/", "h", "e", "l", "p", " ", " ", " ", " ", " ", " ", " ", " ", " ", " ", " ",
            " ", " ", " ", " ", " ", " ", "S", "h", "o", "w", " ", "t", "h", "i", "s", " ", "h",
                    "e", "l", "p", "\n">>
    \o <<" ", " ", "/", "r", "e", "s", "e", "t", " ", " ", " ", " ", " ", " ", " ", " ", " ", " ",
            " ", " ", " ", " ", " ", " ", "C", "l", "e", "a", "r", " ", "h", "i", "s", "t", "o",
                    "r", "y", " ", "(", "k", "e", "e", "p", " ", "y", "o", "u", "r", " ", "n", "a",
                            "m", "e", ")", "\n">>
    \o <<" ", " ", "/", "s", "a", "v", "e", " ", "<", "f", "i", "l", "e", ">", " ", " ", " ", " ",
            " ", " ", " ", " ", " ", " ", "S", "a", "v", "e", " ", "m", "e", "m", "o", "r", "y",
                    "/", "h", "i", "s", "t", "o", "r", "y", " ", "t", "o", " ", "a", " ", "J", "S",
                            "O", "N", " ", "f", "i", "l", "e", "\n">>
    \o <<" ", " ", "/", "l", "o", "a", "d", " ", "<", "f", "i", "l", "e", ">", " ", " ", " ", " ",
            " ", " ", " ", " ", " ", " ", "L", "o", "a", "d", " ", "m", "e", "m", "o", "r", "y",
                    "/", "h", "i", "s", "t", "o", "r", "y", " ", "f", "r", "o", "m", " ", "a", " ",
                            "J", "S", "O", "N", " ", "f", "i", "l", "e", "\n">>
    \o <<" ", " ", "/", "q", "u", "i", "t", " ", " ", " ", " ", " ", " ", " ", " ", " ", " ", " ",
            " ", " ", " ", " ", " ", " ", "E", "x", "i", "t", "\n">>
    \o <<"\n", "T", "i", "p", "s", ":", "\n">>
    \o <<" ", " ", "U+2022", " ", "T", "e", "l", "l", " ", "m", "e", " ", "y", "o", "u", "r", " ",
            "n", "a", "m", "e", " ", "(", "e", ".", "g", ".", ",", " ", "\"", "m", "y", " ", "n",
                    "a", "m", "e", " ", "i", "s", " ", "S", "a", "m", "\"", ")", ".", "\n">>
    \o <<" ", " ", "U+2022", " ", "D", "o", " ", "q", "u", "i", "c", "k", " ", "m", "a", "t", "h",
            ":", " ", "\"", "c", "a", "l", "c", ":", " ", "2", "*", "(", "3", "+", "4", ")", "\"",
                    " ", "o", "r", " ", "\"", "c", "a", "l", "c", " ", "s", "q", "r", "t", "(",
                            "1", "6", ")", "\"", ".", "\n">>
    \o <<" ", " ", "U+2022", " ", "A", "s", "k", " ", "f", "o", "r", " ", "a", " ", "j", "o", "k",
            "e", " ", "o", "r", " ", "t", "h", "e", " ", "t", "i", "m", "e", "/", "d", "a", "t",
                    "e", ".", "\n">>

\* the paths the commands of the model name: a file and a directory
P_file == <<"a">>
P_dir == <<"d">>

\* the lines typed at the prompt: commands, chat lines and blank lines
Lines == {
    <<"/", "h", "e", "l", "p">>, <<"/", "r", "e", "s", "e", "t">>, <<"/", "R", "E", "S", "E", "T",
            " ", "n", "o", "w">>, <<"/", "s", "a", "v", "e">>, <<"/", "s", "a", "v", "e", " ",
                    "a">>, <<"/", "s", "a", "v", "e", " ", "d">>, <<"/", "l", "o", "a", "d">>,
    <<"/", "l", "o", "a", "d", " ", "a">>, <<"/", "L", "o", "a", "d", " ", "d">>, <<"/", "q", "u",
            "i", "t">>, <<"/", "e", "x", "i", "t">>,
    <<"h", "e", "l", "l", "o">>, <<"m", "y", " ", "n", "a", "m", "e", " ", "i", "s", " ", "a", "d",
            "a">>, <<"h", "e", "y", ",", " ", "M", "y", " ", "N", "a", "m", "e", " ", "i", "s",
                    " ", "o", "'", "n", "e", "i", "l", "-", "l", "e", "e", " ", "a", "n", "d", " ",
                            "t", "h", "a", "n", "k", "s">>,
    <<"m", "y", " ", "n", "a", "m", "e", " ", "i", "s", " ", "5">>, <<"t", "h", "a", "n", "k",
            "s">>, <<"t", "h", "a", "n", "k", " ", "y", "o", "u", " ", "a", "n", "d", " ", "b",
                    "y", "e">>, <<"b", "y", "e">>, <<"w", "h", "a", "t", " ", "t", "i", "m", "e",
                            " ", "i", "s", " ", "i", "t">>,
    <<"t", "e", "l", "l", " ", "m", "e", " ", "a", " ", "j", "o", "k", "e", " ", "a", "b", "o",
            "u", "t", " ", "t", "i", "m", "e">>, <<"j", "o", "k", "e">>, <<"c", "a", "l", "c", " ",
                    "1", "+", "2">>, <<"c", "a", "l", "c", ":", " ", "1", "+", "2">>, <<"c", "a",
                            "l", "c", ":", "2", "*", "(", "3", "+", "4", ")">>,
    <<"C", "A", "L", "C", " ", "s", "q", "r", "t", "(", "1", "6", ")">>, <<"c", "a", "l", "c", " ",
            "2", ":", "3", "+", "4">>, <<"c", "a", "l", "c", " ", "1", "/", "0">>, <<"c", "a", "l",
                    "c", " ", "s", "i", "n">>, <<"c", "a", "l", "c", " ", "p", "i", "(", "1", ")">>,
    <<"c", "a", "l", "c", " ", "s", "q", "r", "t", "(", "4", ",", " ", "x", "=", "o", "s", ".",
            "s", "y", "s", "t", "e", "m", ")">>, <<"c", "a", "l", "c", " ", "2", "*", "*", "-",
                    "1">>, <<"c", "a", "l", "c", " ", "h", "i">>, <<"c", "a", "l", "c", " ", "t",
                            "h", "e", " ", "d", "a", "t", "e">>,
    <<"t", "e", "l", "l", " ", "m", "e", " ", "a", "b", "o", "u", "t", " ", "m", "a", "n", "i",
            "l", "a">>, <<"p", "y", "t", "h", "o", "n", " ", "o", "n", " ", "a", " ", "p", "l",
                    "a", "n", "e", "t">>, <<"c", "a", "l", "c", "u", "l", "a", "t", "e">>,
    <<"i", " ", "a", "m", " ", "s", "a", "d", " ", "b", "u", "t", " ", "g", "o", "o", "d">>, <<"f",
            "e", "e", "l", "i", "n", "g", " ", "g", "r", "e", "a", "t">>, <<"s", "a", "d", " ",
                    "p", "y", "t", "h", "o", "n">>, <<"a", "s", "d", "f", "q", "w", "e", "r", "t",
                            "y">>,
    <<"n", "o", "t", "h", "i", "n", "g">>,
    <<>>, <<" ", " ">> }

\* str(e) of the exceptions save and load raise, without positions
ErrorText(exc, path) ==
    CASE exc = "FileNotFoundError" ->
            <<"[", "E", "r", "r", "n", "o", " ", "2", "]", " ", "N", "o", " ", "s", "u", "c", "h",
                    " ", "f", "i", "l", "e", " ", "o", "r", " ", "d", "i", "r", "e", "c", "t", "o",
                            "r", "y", ":", " ", "'">> \o path \o <<"'">>
      [] exc = "IsADirectoryError" ->
            <<"[", "E", "r", "r", "n", "o", " ", "2", "1", "]", " ", "I", "s", " ", "a", " ", "d",
                    "i", "r", "e", "c", "t", "o", "r", "y", ":", " ", "'">> \o path \o <<"'">>
      [] exc = "JSONDecodeError" -> <<"E", "x", "p", "e", "c", "t", "i", "n", "g", " ", "v", "a",
              "l", "u", "e">>
      [] exc = "UnicodeEncodeError" ->
            <<"'", "u", "t", "f", "-", "8", "'", " ", "c", "o", "d", "e", "c", " ", "c", "a", "n",
                    "'", "t", " ", "e", "n", "c", "o", "d", "e", " ", "c", "h", "a", "r", "a", "c",
                            "t", "e", "r", ":", " ", "s", "u", "r", "r", "o", "g", "a", "t", "e",
                                    "s", " ", "n", "o", "t", " ", "a", "l", "l", "o", "w", "e",
                                            "d">>

\* user.startswith("/")
IsCommand(user) == StartsWith(user, <<"/">>)
\* parts[0].lower()
CommandOf(user) == Lower(SplitWords(user)[1])
\* parts[1] if len(parts) > 1 else None (<< >> for None)
ArgOf(user) == IF Len(SplitWords(user)) > 1 THEN SplitWords(user)[2] ELSE <<>>

\* one iteration of the loop: the line read, the handler that ran, the line
\* it returned or raised at, what was printed, the exception that escaped
\* the handler or was reported, the string handed to eval_expr, and the
\* object self.memory was bound to when the line was read
Iteration(line, op, at, out, exc, e) ==
    [line |-> line, op |-> op, at |-> at, out |-> out, exc |-> exc, expr |-> e,
     before |-> memory]

\* eval_expr has not run
NotRun == [k |-> "none", n |-> 0, d |-> 0, s |-> <<>>, exc |-> ""]

(***************************************************************************)
(* The memory records and other files found on disk when main starts.      *)
(***************************************************************************)
\* a memory record with the given name and history of strings
MemoryRecord(name, history) ==
    PyDict([key \in {K_name, K_history} |->
               IF key = K_name THEN name
               ELSE PyList([i \in 1..Len(history) |-> PyStr(history[i])])])

\* what the file may hold when main starts: nothing, a memory record written
\* with ensure_ascii (names None and Eve, histories of at most MaxHist
\* strings), a JSON text that holds no memory record, or a truncated text
StartFiles ==
    LET names == {PyNone, PyStr(<<"E", "v", "e">>)}
        strings == {<<"s", "a", "y", " ", "\"", "h", "i", "\"">>, <<"o", SURROGATE>>}
        histories == UNION {[1..len -> strings] : len \in 0..MaxHist}
        others == {
            Dumps(PyList(<<>>), TRUE),
            Dumps(PyDict([key \in {K_name, K_history} |->
                             IF key = K_name THEN PyInt(<<"5">>) ELSE PyList(<<>>)]), TRUE),
            Dumps(PyDict([key \in {K_name, K_history} |->
                             IF key = K_name THEN PyStr(<<"E", "v", "e">>) ELSE PyInt(<<"3">>)]),
                                     TRUE),
            SubSeq(Dumps(NewMemory, TRUE), 1, 3) }
    IN  {NoFile}
            \cup {File(Dumps(MemoryRecord(n, h), TRUE)) : n \in names, h \in histories}
            \cup {File(t) : t \in others}

Init ==
    /\ memory = NewMemory
    /\ \E f \in StartFiles :
          files = [p \in {P_file, P_dir} |-> IF p = P_dir THEN Directory ELSE f]
    /\ last = Iteration(<<>>, "start", 209, BANNER, "", <<>>)
    /\ status = "running"
    /\ declared = <<>>
    /\ expr = Num(0)
    /\ result = NotRun

\* if not user: continue
ReadBlank ==
    /\ status = "running"
    /\ \E line \in Lines :
          /\ Strip(line) = <<>>
          /\ last' = Iteration(line, "blank", 218, <<>>, "", <<>>)
    /\ UNCHANGED <<memory, files, status, declared, expr, result>>

\* /help
Help ==
    /\ status = "running"
    /\ \E line \in Lines :
          /\ IsCommand(Strip(line))
          /\ CommandOf(Strip(line)) = <<"/", "h", "e", "l", "p">>
          /\ last' = Iteration(line, "help", 227, HELP, "", <<>>)
    /\ UNCHANGED <<memory, files, status, declared, expr, result>>

\* /reset: bot.reset() runs outside any try
Reset ==
    /\ status = "running"
    /\ \E line \in Lines :
          /\ IsCommand(Strip(line))
          /\ CommandOf(Strip(line)) = <<"/", "r", "e", "s", "e", "t">>
          /\ \E r \in {reset(memory)} :
                /\ last' = Iteration(line, "reset", r.at, r.ret, r.exc, <<>>)
                /\ memory' = r.mem
                /\ status' = IF r.exc = "" THEN "running" ELSE "crashed"
    /\ UNCHANGED <<files, declared, expr, result>>

\* /save [file]
Save ==
    /\ status = "running"
    /\ \E line \in Lines :
          /\ IsCommand(Strip(line))
          /\ CommandOf(Strip(line)) = <<"/", "s", "a", "v", "e">>
          /\ \E arg \in {ArgOf(Strip(line))} :
                IF arg = <<>> THEN
                    /\ last' = Iteration(line, "save", 233, <<"U", "s", "a", "g", "e", ":", " ",
                            "/", "s", "a", "v", "e", " ", "<", "f", "i", "l", "e", ">">>,
                                         "", <<>>)
                    /\ UNCHANGED <<memory, files>>
                ELSE
                    \E r \in {save(arg, memory, files)} :
                        /\ last' = Iteration(line, "save", r.at,
                                             IF r.exc = "" THEN r.ret
                                             ELSE <<"C", "o", "u", "l", "d", "n", "'", "t", " ",
                                                     "s", "a", "v", "e", ":", " ">>
                                                     \o ErrorText(r.exc, arg),
                                             r.exc, <<>>)
                        /\ memory' = r.mem
                        /\ files' = r.fs
    /\ UNCHANGED <<status, declared, expr, result>>

\* /load [file]
Load ==
    /\ status = "running"
    /\ \E line \in Lines :
          /\ IsCommand(Strip(line))
          /\ CommandOf(Strip(line)) = <<"/", "l", "o", "a", "d">>
          /\ \E arg \in {ArgOf(Strip(line))} :
                IF arg = <<>> THEN
                    /\ last' = Iteration(line, "load", 242, <<"U", "s", "a", "g", "e", ":", " ",
                            "/", "l", "o", "a", "d", " ", "<", "f", "i", "l", "e", ">">>,
                                         "", <<>>)
                    /\ UNCHANGED <<memory, files, declared>>
                ELSE
                    \E r \in {load(arg, memory, files)} :
                        /\ last' = Iteration(line, "load", r.at,
                                             IF r.exc = "" THEN r.ret
                                             ELSE <<"C", "o", "u", "l", "d", "n", "'", "t", " ",
                                                     "l", "o", "a", "d", ":", " ">>
                                                     \o ErrorText(r.exc, arg),
                                             r.exc, <<>>)
                        /\ memory' = r.mem
                        /\ files' = r.fs
                        /\ declared' = IF r.exc = "" THEN <<>> ELSE declared
    /\ UNCHANGED <<status, expr, result>>

\* /quit: return 0
Quit ==
    /\ status = "running"
    /\ \E line \in Lines :
          /\ IsCommand(Strip(line))
          /\ CommandOf(Strip(line)) = <<"/", "q", "u", "i", "t">>
          /\ last' = Iteration(line, "quit", 251, <<"G", "o", "o", "d", "b", "y", "e", "!">>, "",
                  <<>>)
    /\ status' = "exited"
    /\ UNCHANGED <<memory, files, declared, expr, result>>

\* any other line that starts with "/"
Unknown ==
    /\ status = "running"
    /\ \E line \in Lines :
          /\ IsCommand(Strip(line))
          /\ CommandOf(Strip(line)) \notin {<<"/", "h", "e", "l", "p">>, <<"/", "r", "e", "s", "e",
                  "t">>, <<"/", "s", "a", "v", "e">>, <<"/", "l", "o", "a", "d">>, <<"/", "q", "u",
                          "i", "t">>}
          /\ last' = Iteration(line, "unknown", 252, <<"U", "n", "k", "n", "o", "w", "n", " ", "c",
                  "o", "m", "m", "a", "n", "d", ".", " ", "T", "y", "p", "e", " ", "/", "h", "e",
                          "l", "p", ".">>,
                               "", <<>>)
    /\ UNCHANGED <<memory, files, status, declared, expr, result>>

\* normal chat: bot.respond(user) runs outside any try.  random.choice and
\* now() are read only by the rule that uses them.
Chat ==
    /\ status = "running"
    /\ \E line \in Lines :
          /\ Strip(line) # <<>>
          /\ ~IsCommand(Strip(line))
          /\ \E r1 \in {respond(Strip(line), memory, 1, Times[1])} :
             \E j \in (IF r1.at = 164 THEN 1..Len(JOKES) ELSE {1}),
                t \in (IF r1.at = 159 THEN 1..Len(Times) ELSE {1}) :
             \E r \in {IF j = 1 /\ t = 1 THEN r1
                        ELSE respond(Strip(line), memory, j, Times[t])} :
                /\ last' = Iteration(line, "respond", r.at, r.ret, r.exc, r.expr)
                /\ memory' = r.mem
                /\ status' = IF r.exc = "" THEN "running" ELSE "crashed"
                /\ declared' = IF r.at = 144 THEN DictGet(r.mem, K_name).v
                               ELSE declared
    /\ UNCHANGED <<files, expr, result>>

\* EOFError or KeyboardInterrupt at the prompt: return 0
EndOfInput ==
    /\ status = "running"
    /\ last' = Iteration(<<>>, "eof", 215, <<"\n", "B", "y", "e", "!">>, "", <<>>)
    /\ status' = "exited"
    /\ UNCHANGED <<memory, files, declared, expr, result>>

Next ==
    \/ ReadBlank
    \/ Help
    \/ Reset
    \/ Save
    \/ Load
    \/ Quit
    \/ Unknown
    \/ Chat
    \/ EndOfInput

Spec == Init /\ [][Next]_vars

(***************************************************************************)
(* eval_expr on expression trees: every tree of at most MaxNodes nodes     *)
(* over a small vocabulary, allowed and not, is handed to _eval.           *)
(***************************************************************************)
\* the trees of exactly n nodes (a keyword's value counts, its name does not)
\* over the literals 0 and 2, the names pi, sqrt and os, three binary and two
\* unary operators, attribute access, comparison and calls
RECURSIVE TreesOfSize(_)
TreesOfSize(n) ==
    IF n = 1 THEN {Num(c) : c \in {0, 2}} \cup {Name(id) : id \in {<<"p", "i">>, <<"s", "q", "r",
            "t">>, <<"o", "s">>}}
    ELSE
        LET T(m) == TreesOfSize(m)
            binops == {"Add", "Div", "FloorDiv"}
            unops == {"USub", "Invert"}
            two == {<<a, n - 1 - a>> : a \in 1..(n - 2)}
            three == {s \in {<<a, b, n - 1 - a - b>> : a \in 1..(n - 3), b \in 1..(n - 3)}
                         : s[3] >= 1}
        IN  {UnaryOp(op, t) : op \in unops, t \in T(n - 1)}
            \cup {Attribute(t, <<"r", "e", "a", "l">>) : t \in T(n - 1)}
            \cup {Call(f, <<>>, <<>>) : f \in T(n - 1)}
            \cup UNION {{BinOp(l, op, r) : l \in T(s[1]), op \in binops, r \in T(s[2])}
                         : s \in two}
            \cup UNION {{Compare(l, "Lt", r) : l \in T(s[1]), r \in T(s[2])} : s \in two}
            \cup UNION {{Call(f, <<a>>, <<>>) : f \in T(s[1]), a \in T(s[2])} : s \in two}
            \cup UNION {{Call(f, <<>>, <<keyword(<<"x">>, v)>>) : f \in T(s[1]), v \in T(s[2])}
                         : s \in two}
            \cup UNION {{Call(f, <<a, b>>, <<>>) : f \in T(s[1]), a \in T(s[2]), b \in T(s[3])}
                         : s \in three}
            \cup UNION {{Call(f, <<a>>, <<keyword(<<"x">>, v)>>)
                            : f \in T(s[1]), a \in T(s[2]), v \in T(s[3])}
                         : s \in three}

InitEval ==
    /\ memory = NewMemory
    /\ files = [p \in {P_file, P_dir} |-> IF p = P_dir THEN Directory ELSE NoFile]
    /\ last = Iteration(<<>>, "start", 209, BANNER, "", <<>>)
    /\ status = "running"
    /\ declared = <<>>
    /\ \E n \in 1..MaxNodes : expr \in TreesOfSize(n)
    /\ result = NotRun

\* return _eval(tree.body)
EvalTree ==
    /\ result = NotRun
    /\ result' = Eval(expr)
    /\ UNCHANGED <<memory, files, last, status, declared, expr>>

SpecEval == InitEval /\ [][EvalTree]_vars


(***************************************************************************)
(* Notions of the specification used to state the properties.              *)
(***************************************************************************)
\* a Memory Record: a mapping whose name is a string, null or absent and
\* whose history is a sequence of strings
IsMemoryRecord(m) ==
    /\ m.ty = "dict"
    /\ DOMAIN m.v \subseteq {K_name, K_history}
    /\ K_history \in DOMAIN m.v
    /\ DictGet(m, K_name).ty \in {"NoneType", "str"}
    /\ m.v[K_history].ty = "list"
    /\ \A i \in 1..Len(m.v[K_history].v) : m.v[K_history].v[i].ty = "str"

\* the history of a Memory Record, as a sequence of objects
HistoryOf(m) == m.v[K_history].v

\* a construct outside the allow-lists somewhere in the tree
RECURSIVE HasDisallowed(_)
HasDisallowed(node) ==
    CASE node.node = "Num" -> FALSE
      [] node.node = "Name" -> node.id \notin DOMAIN ALLOWED_NAMES
      [] node.node = "BinOp" ->
            \/ node.op \notin ALLOWED_OPS
            \/ HasDisallowed(node.left)
            \/ HasDisallowed(node.right)
      [] node.node = "UnaryOp" ->
            node.op \notin ALLOWED_OPS \/ HasDisallowed(node.operand)
      [] node.node = "Call" ->
            \/ node.func.node # "Name"
            \/ HasDisallowed(node.func)
            \/ node.keywords # <<>>
            \/ \E i \in 1..Len(node.args) : HasDisallowed(node.args[i])
      [] OTHER -> TRUE

\* the keyword w stands in s as a word: no word character on either side
ContainsWord(s, w) ==
    \E i \in Occurrences(s, w) :
        /\ i = 1 \/ ~IsWordChar(s[i - 1])
        /\ i + Len(w) > Len(s) \/ ~IsWordChar(s[i + Len(w)])

AnyWord(s, words) == \E k \in 1..Len(words) : ContainsWord(s, words[k])

\* one of the greeting, gratitude, farewell, time/date, joke, fact or
\* sentiment keywords stands in s as a word
HasKeywordWord(s) ==
    \/ AnyWord(s, GreetingWords)
    \/ AnyWord(s, GratitudeWords)
    \/ AnyWord(s, FarewellWords)
    \/ AnyWord(s, TimeDateWords)
    \/ AnyWord(s, JokeWords)
    \/ \E i \in 1..Len(FACTS) : ContainsWord(s, FACTS[i].key)
    \/ AnyWord(s, NegativeWords)
    \/ AnyWord(s, PositiveWords)

\* the match condition of rule k of the priority order (1 name-declaration,
\* 2 greeting, 3 gratitude, 4 farewell, 5 time/date, 6 joke, 7 calculator,
\* 8 fact, 9 negative sentiment, 10 positive sentiment, 11 fallback)
RuleMatches(k, text) ==
    CASE k = 1 -> NAME_PAT_search(text) # <<>>
      [] k = 2 -> IsGreeting(Lower(text))
      [] k = 3 -> IsGratitude(Lower(text))
      [] k = 4 -> IsFarewell(Lower(text))
      [] k = 5 -> IsTimeDate(Lower(text))
      [] k = 6 -> IsJoke(Lower(text))
      [] k = 7 -> IsCalc(Lower(text))
      [] k = 8 -> IsFact(Lower(text))
      [] k = 9 -> IsNegative(Lower(text))
      [] k = 10 -> IsPositive(Lower(text))
      [] k = 11 -> TRUE

\* the earliest rule of the order that text matches
FirstRule(text) == SetMin({k \in 1..11 : RuleMatches(k, text)})

\* the name a name-declaration declares
DeclaredName(text) == Title(Strip(NAME_PAT_search(text)))

\* the replies rule k may give to text when the memory is mem
RuleReplies(k, text, mem) ==
    CASE k = 1 -> {NiceToMeet(DeclaredName(text))}
      [] k = 2 -> {GreetingReply(DictGet(mem, K_name))}
      [] k = 3 -> {<<"Y", "o", "u", "'", "r", "e", " ", "w", "e", "l", "c", "o", "m", "e", "!">>}
      [] k = 4 -> {<<"B", "y", "e", "!", " ", "T", "y", "p", "e", " ", "/", "q", "u", "i", "t",
              " ", "t", "o", " ", "l", "e", "a", "v", "e", " ", "t", "h", "e", " ", "p", "r", "o",
                      "g", "r", "a", "m", ".">>}
      [] k = 5 -> {<<"I", "t", "'", "s", " ">> \o now(Times[t]) \o <<".">> : t \in 1..Len(Times)}
      [] k = 6 -> Range(JOKES)
      [] k = 7 -> {CalcReply(text, mem).ret}
      [] k = 8 -> {FactReply(Lower(text))}
      [] k = 9 -> {NegativeReply(DictGet(mem, K_name))}
      [] k = 10 -> {PositiveReply(DictGet(mem, K_name))}
      [] k = 11 -> {FALLBACK}

(***************************************************************************)
(* The properties.                                                         *)
(***************************************************************************)

\* C1: respond never raises: every chat line read by the shell, in every
\* memory state the shell operations reach (a successful /load included),
\* gets a reply and leaves the loop running.
C1_RespondNeverRaises ==
    last.op = "respond" => (last.exc = "" /\ status = "running")

\* C2: an expression tree that holds a construct outside the allow-lists,
\* at any depth, makes eval_expr fail: no value is returned for it.
C2_DisallowedFails ==
    (result # NotRun /\ HasDisallowed(expr)) => IsRaise(result)

\* C3: load either fails and leaves the memory as it was, or succeeds and
\* installs a Memory Record; well-formed JSON that is no such record fails.
C3_LoadInstallsRecordOrFails ==
    (last.op = "load" /\ last.at \in {126, 127, 128}) =>
        IF last.exc # "" THEN memory = last.before
        ELSE IsMemoryRecord(memory)

\* C4: reset of a Memory Record leaves the history empty and the name what
\* it was just before the call, and a second reset changes nothing.
C4_ResetClearsHistoryKeepsName ==
    (last.op = "reset" /\ IsMemoryRecord(last.before)) =>
        /\ last.exc = ""
        /\ IsMemoryRecord(memory)
        /\ HistoryOf(memory) = <<>>
        /\ DictGet(memory, K_name) = DictGet(last.before, K_name)
        /\ reset(memory).mem = memory

\* a reset has run on a record with a name and a non-empty history
C4_Witness ==
    /\ last.op = "reset"
    /\ IsMemoryRecord(last.before)
    /\ DictGet(last.before, K_name) = PyStr(<<"E", "v", "e">>)
    /\ HistoryOf(last.before) # <<>>
    /\ memory = MemoryRecord(PyStr(<<"E", "v", "e">>), <<>>)

\* C5: save of a Memory Record to a file, then load of that file by a fresh
\* bot, gives the fresh bot a memory equal to the record, and save leaves the
\* saving bot's memory as it was.
C5_SaveLoadRoundTrip ==
    (/\ last.op = "save"
     /\ ArgOf(Strip(last.line)) = P_file
     /\ IsMemoryRecord(last.before)) =>
        /\ last.exc = ""
        /\ memory = last.before
        /\ load(P_file, NewMemory, files).exc = ""
        /\ load(P_file, NewMemory, files).mem = last.before

\* C6: once a name-declaration has set the name to N and acknowledged it,
\* the name stays N through every later reset, save and respond without a
\* name-declaration (no load), and every reply to a line with a greeting
\* keyword in that span contains N.
C6_NamePersists ==
    declared # <<>> =>
        /\ memory.ty = "dict"
        /\ DictGet(memory, K_name) = PyStr(declared)
        /\ (last.op = "respond"
              /\ (RuleMatches(1, Strip(last.line)) \/ RuleMatches(2, Strip(last.line))))
            => (last.exc = "" /\ Contains(last.out, declared))

\* a greeting answered with the declared name
C6_Witness ==
    /\ declared = <<"A", "d", "a">>
    /\ last.op = "respond"
    /\ last.line = <<"h", "e", "l", "l", "o">>
    /\ Contains(last.out, <<"A", "d", "a">>)

\* C7: respond applies its rules in the fixed priority order: the reply to a
\* non-empty line is the reply of the earliest rule the line matches, and no
\* later rule has an effect (the memory changes only when rule 1 matches,
\* and then only in its name).
C7_FirstMatchWins ==
    (last.op = "respond" /\ IsMemoryRecord(last.before)) =>
        /\ last.exc = ""
        /\ last.out \in RuleReplies(FirstRule(Strip(last.line)), Strip(last.line),
                                   last.before)
        /\ memory = IF RuleMatches(1, Strip(last.line))
                    THEN DictSet(last.before, K_name,
                                 PyStr(DeclaredName(Strip(last.line))))
                    ELSE last.before

\* a line that matches the negative and the positive rule got the negative
\* rule's reply
C7_Witness ==
    /\ last.op = "respond"
    /\ IsMemoryRecord(last.before)
    /\ RuleMatches(9, Strip(last.line))
    /\ RuleMatches(10, Strip(last.line))
    /\ FirstRule(Strip(last.line)) = 9
    /\ last.out = NegativeReply(DictGet(memory, K_name))

\* C8: a non-empty line that is no name-declaration and no calculator
\* trigger and holds none of the keywords as a word gets the fallback.
C8_NoKeywordFallback ==
    (/\ last.op = "respond"
     /\ IsMemoryRecord(last.before)
     /\ ~RuleMatches(1, Strip(last.line))
     /\ ~RuleMatches(7, Strip(last.line))
     /\ ~HasKeywordWord(Lower(Strip(last.line)))) =>
        last.out = FALLBACK

\* C9: when the calculator rule fires, the expression handed to eval_expr is
\* the text after the five characters of the prefix and its separator; the
\* reply is that remainder trimmed, " = " and the value, or an apology.
C9_CalcUsesRemainder ==
    (last.op = "respond" /\ last.at \in {171, 173}) =>
        /\ last.expr = SubSeq(Strip(last.line), 6, Len(Strip(last.line)))
        /\ IF last.at = 171
           THEN StartsWith(last.out,
                           Strip(SubSeq(Strip(last.line), 6, Len(Strip(last.line))))
                               \o <<" ", "=", " ">>)
           ELSE StartsWith(last.out, <<"I", " ", "c", "o", "u", "l", "d", "n", "'", "t", " ", "c",
                   "o", "m", "p", "u", "t", "e", " ", "t", "h", "a", "t", ":", " ">>)

\* C10: every value eval_expr returns is a number: a function name is of use
\* only as a callee and a constant only as an identifier.
C10_ValuesAreNumbers ==
    result # NotRun => (IsRaise(result) \/ IsNumber(result))

====
